---------------------------- MODULE Spec2Model ----------------------------
(***************************************************************************)
(* Bluetooth-heart-rate-to-VRChat: the BLE session (bluetooth_client.py)   *)
(* and the OSC gateway (osc_client.py) as state machines.                  *)
(*                                                                         *)
(* asyncio runs one coroutine at a time and switches only at an await, so  *)
(* every action of the session is the code between two awaits.             *)
(*                                                                         *)
(* Time is discrete, one unit = one second, and kept relative to the       *)
(* present: a sleeping coroutine holds the seconds left of its             *)
(* asyncio.sleep, which ends exactly when none is left, and a timestamp    *)
(* taken with time.time() is held as the seconds gone by since (its age).  *)
(* An awaited BLE operation ends at any later moment.                      *)
(***************************************************************************)
EXTENDS Integers, Sequences, FiniteSets, TLC

(***************************************************************************)
(* Bounds of the model.                                                    *)
(***************************************************************************)
\* an age stops growing here: time.time() - last_data_time is only ever
\* compared with timeouts below it
MaxAge == 17
\* accepted send_heart_rate calls in one behaviour of the encoder
MaxCalls == 3
\* accepted send_heart_rate calls in one behaviour of the fan-out
MaxFanOutCalls == 3
\* keepalive threads started in one behaviour and not yet ended
MaxWorkers == 2
\* heart-rate notifications in one behaviour
MaxNotifications == 3
\* battery values given to battery_callback in one behaviour
MaxBatteryCalls == 2
\* bytes of a payload handed to _parse_heart_rate_data
MaxLen == 4
\* config.py:25  KEEPALIVE_INTERVAL as set through the environment, in
\* seconds; the default is 30
KEEPALIVE_INTERVAL == 3

(***************************************************************************)
(* Constants of the program.                                               *)
(***************************************************************************)
\* bluetooth_client.py:142  await asyncio.sleep(2)
BackoffSeconds == 2
\* bluetooth_client.py:189  await asyncio.sleep(1)
StabiliseSeconds == 1
\* bluetooth_client.py:478  await asyncio.sleep(5)
CheckInterval == 5
\* bluetooth_client.py:427  await asyncio.sleep(30)
ProbeInterval == 30
\* bluetooth_client.py:445, 451  await asyncio.sleep(5)
RetryInterval == 5

\* bluetooth_client.py:97-101  connection_strategies, by position
connection_strategies == <<15, 25, 35>>

\* timeout_seconds values handed to start_timeout_monitoring
Timeouts == {10}

\* osc_client.py:48  join(timeout=1)
JoinTimeout == 1

\* config.py:17  HEART_RATE_MIN
HEART_RATE_MIN == 40
\* config.py:18  HEART_RATE_MAX
HEART_RATE_MAX == 200
\* config.py:20  SMOOTHING_WINDOW_SIZE, set through the environment
WindowSizes == {2, 3}

\* heart_rate values handed to send_heart_rate; battery_level values, -1
\* is None
HeartRates == {39, 40, 60, 61, 80, 100, 200, 201}
FanOutRates == {39, 80, 201}
BatteryLevels == {-1, 0}

\* values of a byte: as flags, 0 and 16 have bit 0 clear, 1 and 17 have it
\* set; as a value, 75 and 255 are one byte, 1 as the high byte gives 256
Bytes == {0, 1, 16, 17, 75, 255}
\* the payloads of length n
PayloadsOfLength(n) == [1..n -> Bytes]
\* the payloads handed to _parse_heart_rate_data
Payloads == UNION {PayloadsOfLength(n) : n \in 0..MaxLen}
\* the payloads of the notifications of one behaviour
NotifiedPayloads == {<<>>, <<0, 0>>, <<0, 75>>, <<16, 80>>, <<1, 75>>,
                     <<1, 75, 0>>, <<1, 0, 0>>, <<17, 44, 1>>}
\* first byte of the battery characteristic
BatteryBytes == {0, 100, 101, 255}
\* what a read or a notification of the battery characteristic carries
BatteryPayloads == {<<>>} \cup {<<b>> : b \in BatteryBytes}

\* osc_client.py:69-129  the addresses of send_heart_rate
HeartrateAddress == "/avatar/parameters/Heartrate"
HeartRateFloatAddress == "/avatar/parameters/HeartRateFloat"
Heartrate2Address == "/avatar/parameters/Heartrate2"
HeartRateFloat01Address == "/avatar/parameters/HeartRateFloat01"
Heartrate3Address == "/avatar/parameters/Heartrate3"
HeartRateIntAddress == "/avatar/parameters/HeartRateInt"
HeartBeatToggleAddress == "/avatar/parameters/HeartBeatToggle"
BluetoothBatteryAddress == "/avatar/parameters/BluetoothBattery"
\* osc_client.py:177  the address of send_keepalive
BluetoothHRConnectedAddress == "/avatar/parameters/BluetoothHRConnected"
Addresses == {HeartrateAddress, HeartRateFloatAddress, Heartrate2Address,
              HeartRateFloat01Address, Heartrate3Address, HeartRateIntAddress,
              HeartBeatToggleAddress, BluetoothBatteryAddress}

\* The exception object an except clause binds; last |-> the last_error
\* quoted in the message of line 145 (0 is None, i the error raised by the
\* i-th strategy).
NoError == [kind |-> "None", last |-> 0]
AllStrategiesFailed(last) == [kind |-> "AllStrategiesFailed", last |-> last]
AttributeError == [kind |-> "AttributeError", last |-> 0]

VARIABLES
    \* ---- BluetoothHeartRateClient: fields
    client,                 \* "None" or "BleakClient"
    client_is_connected,    \* self.client.is_connected (the transport)
    client_timeout,         \* timeout the BleakClient was created with
    is_connected,
    last_data_time,         \* as its age time.time() - last_data_time; -1 is None
    is_monitoring_timeout,
    timeout_monitor_task,   \* "None", "created", "sleeping", "done", "cancelled"
    timeout_callback,       \* TRUE: a callback was given to __init__
    \* ---- connect(): locals and position
    connect_pc,             \* "idle", "connecting", "backoff", "read_name",
                            \* "read_manufacturer", "read_model", "stabilise",
                            \* "returned"
    strategy_i,             \* 1-based position in connection_strategies
    connected,
    last_error,             \* 0 is None, i the error raised by strategy i
    connect_sleep,          \* seconds left of connect's asyncio.sleep
    \* ---- _monitor_data_timeout(): argument and position
    monitor_timeout,
    monitor_sleep,          \* seconds left of its asyncio.sleep(5)
    \* ---- keep_alive(): position
    keep_alive_pc,          \* "None", "created", "sleep30", "probe", "wait5"
    keep_alive_sleep,       \* seconds left of its asyncio.sleep
    \* ---- what an observer of the session has seen
    connect_result,         \* "None", "True", "False": what connect returns
    connect_error,          \* the exception caught at line 238
    succeeded_strategy,     \* strategy that connected in this call, 0: none
    timeout_calls,          \* timeout_callback invocations since the last arm
    stale_detected,         \* line 486 held since the last arm
    armed_connected,        \* is_connected held when the watchdog was armed
    touched,                \* update_data_timestamp was called since the last arm
    touch_age,              \* seconds since the last arm or touch, -1 before any
    \* ---- BluetoothHeartRateClient: the callbacks and the last values
    heart_rate_callback,    \* TRUE: a callback was given to __init__
    battery_callback,       \* TRUE: a callback was given to __init__
    last_heart_rate,
    last_battery_level,     \* -1 is None
    \* ---- _parse_heart_rate_data: argument and what it returned
    parse_data,
    parse_result,           \* -1: not called yet
    \* ---- what an observer of the two callbacks has seen
    notifications,          \* payloads of the heart-rate notifications, in order
    heart_rate_calls,       \* arguments of heart_rate_callback, in order
    battery_calls,          \* arguments of battery_callback, in order
    \* ---- Config, as read from the environment when config.py is imported
    HEART_RATE_SMOOTHING,
    SMOOTHING_WINDOW_SIZE,
    \* ---- VRChatOSCClient: fields
    osc_client,             \* self.client: "None" or "SimpleUDPClient"
    osc_connected,          \* self.connected
    osc_running,            \* self.running
    osc_last_heart_rate,    \* self.last_heart_rate
    hb_toggle,
    heart_rate_history,     \* the deque, oldest first
    keepalive_thread,       \* 0 is None, w the thread started last
    \* ---- the keepalive threads and the thread that calls disconnect()
    worker_pc,              \* per thread: "none", "created", "send_keepalive",
                            \* "checked", "sending", "sleeping", "dead"
    worker_sleep,           \* per thread: seconds left of its time.sleep
    osc_disconnect_pc,      \* "idle" or "join": disconnect() is in its join
    join_left,              \* seconds left of the join's timeout
    keepalive_sent,         \* the last BluetoothHRConnected message given to
                            \* send_message
    \* ---- BluetoothHeartRateApp.cleanup(): position
    cleanup_pc,             \* "None", "status_sent", "disconnect"
    \* ---- what an observer of the gateway has seen
    last_call,              \* the last send_heart_rate call and its outcome
    sent,                   \* send_message calls of that call, in order
    send_failed,            \* one of them raised
    accepted_calls,         \* per accepted call: raw value, value sent, toggle
    all_delivered           \* no send_message of an accepted call has raised

fieldVars == <<client, client_is_connected, client_timeout, is_connected>>
watchVars == <<last_data_time, is_monitoring_timeout, timeout_monitor_task,
               monitor_timeout, monitor_sleep>>
connectVars == <<connect_pc, strategy_i, connected, last_error, connect_sleep>>
keepAliveVars == <<keep_alive_pc, keep_alive_sleep>>
connectObs == <<connect_result, connect_error, succeeded_strategy>>
watchObs == <<timeout_calls, stale_detected, armed_connected, touched, touch_age>>

sampleVars == <<heart_rate_callback, battery_callback, last_heart_rate,
                last_battery_level, parse_data, parse_result, notifications,
                heart_rate_calls, battery_calls>>

bleVars == <<fieldVars, watchVars, connectVars, keepAliveVars, timeout_callback,
             connectObs, watchObs, sampleVars>>

configVars == <<HEART_RATE_SMOOTHING, SMOOTHING_WINDOW_SIZE>>
oscFields == <<osc_client, osc_connected, osc_running, keepalive_thread>>
encoderVars == <<osc_last_heart_rate, hb_toggle, heart_rate_history>>
oscObs == <<last_call, sent, send_failed, accepted_calls, all_delivered>>
threadVars == <<worker_pc, worker_sleep, osc_disconnect_pc, join_left,
                keepalive_sent>>

appVars == <<cleanup_pc>>

oscVars == <<configVars, oscFields, encoderVars, oscObs, threadVars, appVars>>

vars == <<bleVars, oscVars>>

(***************************************************************************)
(* BluetoothHeartRateClient.__init__                                       *)
(***************************************************************************)
InitBle ==
    /\ client = "None"
    /\ client_is_connected = FALSE
    /\ client_timeout = 0
    /\ is_connected = FALSE
    /\ last_data_time = -1
    /\ is_monitoring_timeout = FALSE
    /\ timeout_monitor_task = "None"
    /\ connect_pc = "idle"
    /\ strategy_i = 0
    /\ connected = FALSE
    /\ last_error = 0
    /\ connect_sleep = 0
    /\ monitor_timeout = 0
    /\ monitor_sleep = 0
    /\ keep_alive_pc = "None"
    /\ keep_alive_sleep = 0
    /\ connect_result = "None"
    /\ connect_error = NoError
    /\ succeeded_strategy = 0
    /\ timeout_calls = 0
    /\ stale_detected = FALSE
    /\ armed_connected = FALSE
    /\ touched = FALSE
    /\ touch_age = -1
    /\ last_heart_rate = 0
    /\ last_battery_level = -1
    /\ parse_result = -1
    /\ notifications = <<>>
    /\ heart_rate_calls = <<>>
    /\ battery_calls = <<>>

(***************************************************************************)
(* connect()                                                               *)
(***************************************************************************)

\* An except clause that returns False without lines 240-246: is_connected
\* and the handle are left as they are.
ConnectFailsKeepsHandle(e) ==
    /\ connect_pc' = "returned"
    /\ strategy_i' = 0
    /\ connected' = FALSE
    /\ last_error' = 0
    /\ connect_sleep' = 0
    /\ connect_result' = "False"
    /\ connect_error' = e
    /\ UNCHANGED fieldVars

\* lines 238-247: the except clause of connect.  The handle is disconnected
\* and dropped, and connect returns False; its locals are gone.
ConnectFails(e) ==
    /\ is_connected' = FALSE
    /\ client' = "None"
    /\ client_is_connected' = FALSE
    /\ client_timeout' = 0
    /\ connect_pc' = "returned"
    /\ strategy_i' = 0
    /\ connected' = FALSE
    /\ last_error' = 0
    /\ connect_sleep' = 0
    /\ connect_result' = "False"
    /\ connect_error' = e

\* lines 107-120: one pass of the strategy loop up to `await
\* self.client.connect()`: the previous handle is disconnected and a new
\* BleakClient is created with the strategy's timeout.
TryStrategy(i) ==
    /\ client' = "BleakClient"
    /\ client_is_connected' = FALSE
    /\ client_timeout' = connection_strategies[i]
    /\ strategy_i' = i
    /\ connect_pc' = "connecting"
    /\ connect_sleep' = 0
    /\ UNCHANGED is_connected

\* lines 88-120: connect is called; the caller awaits it, so it is not
\* called again before it has returned.
Connect ==
    /\ connect_pc = "idle"
    /\ connected' = FALSE
    /\ last_error' = 0
    /\ TryStrategy(1)
    /\ UNCHANGED connectObs
    /\ UNCHANGED <<watchVars, keepAliveVars, timeout_callback, watchObs>>
    /\ UNCHANGED <<sampleVars, oscVars>>

\* lines 120, 127-145: `await self.client.connect()` raises.  The error is
\* kept in last_error; a strategy that is not the last one is followed by
\* the backoff sleep, the last one by the end of the loop with connected
\* False.
StrategyRaises ==
    /\ connect_pc = "connecting"
    /\ IF strategy_i < Len(connection_strategies)
       THEN /\ last_error' = strategy_i
            /\ connect_pc' = "backoff"
            /\ connect_sleep' = BackoffSeconds
            /\ UNCHANGED <<fieldVars, strategy_i, connected, connect_result,
                           connect_error>>
       ELSE ConnectFails(AllStrategiesFailed(strategy_i))
    /\ UNCHANGED succeeded_strategy
    /\ UNCHANGED <<watchVars, keepAliveVars, timeout_callback, watchObs>>
    /\ UNCHANGED <<sampleVars, oscVars>>

\* line 142: the backoff sleep ends; the loop goes on with the next strategy.
BackoffEnds ==
    /\ connect_pc = "backoff"
    /\ connect_sleep = 0
    /\ TryStrategy(strategy_i + 1)
    /\ UNCHANGED <<connected, last_error, connectObs>>
    /\ UNCHANGED <<watchVars, keepAliveVars, timeout_callback, watchObs>>
    /\ UNCHANGED <<sampleVars, oscVars>>

\* lines 120-125, 144-156: `await self.client.connect()` returns and the
\* client is connected: the loop is left, is_connected is set and the device
\* name is read.
StrategySucceeds ==
    /\ connect_pc = "connecting"
    /\ succeeded_strategy' = strategy_i
    /\ connected' = TRUE
    /\ client_is_connected' = TRUE
    /\ is_connected' = TRUE
    /\ connect_pc' = "read_name"
    /\ UNCHANGED <<client, client_timeout, strategy_i, last_error, connect_sleep,
                   connect_result, connect_error>>
    /\ UNCHANGED <<watchVars, keepAliveVars, timeout_callback, watchObs>>
    /\ UNCHANGED <<sampleVars, oscVars>>

\* lines 120-122, 106-120, 144-145: `await self.client.connect()` returns
\* and the client is not connected: no except clause runs, so nothing is
\* kept in last_error and there is no sleep; the loop goes straight on, to
\* the next strategy or to its end.
StrategyReturnsUnconnected ==
    /\ connect_pc = "connecting"
    /\ IF strategy_i < Len(connection_strategies)
       THEN /\ TryStrategy(strategy_i + 1)
            /\ UNCHANGED <<connected, last_error, connect_result, connect_error>>
       ELSE ConnectFails(AllStrategiesFailed(last_error))
    /\ UNCHANGED succeeded_strategy
    /\ UNCHANGED <<watchVars, keepAliveVars, timeout_callback, watchObs>>
    /\ UNCHANGED <<sampleVars, oscVars>>

\* lines 153-189: one of the three identity reads returns or raises; its
\* except clause swallows the error and connect goes on.  The last one is
\* followed by the one second sleep.
ReadIdentity(at, next) ==
    /\ connect_pc = at
    /\ connect_pc' = next
    /\ connect_sleep' = IF next = "stabilise" THEN StabiliseSeconds ELSE 0
    /\ UNCHANGED <<fieldVars, strategy_i, connected, last_error, connectObs>>
    /\ UNCHANGED <<watchVars, keepAliveVars, timeout_callback, watchObs>>
    /\ UNCHANGED <<sampleVars, oscVars>>

ReadDeviceName == ReadIdentity("read_name", "read_manufacturer")

ReadManufacturer == ReadIdentity("read_manufacturer", "read_model")

ReadModel == ReadIdentity("read_model", "stabilise")

\* lines 189-193, 238-247: the sleep ends and Config.DATA_TIMEOUT is
\* evaluated.  Config (config.py:4-34) has no DATA_TIMEOUT, so the lookup
\* raises AttributeError before start_timeout_monitoring is entered, and the
\* except clause of connect takes over.
ArmAfterStabilise ==
    /\ connect_pc = "stabilise"
    /\ connect_sleep = 0
    /\ ConnectFails(AttributeError)
    /\ UNCHANGED succeeded_strategy
    /\ UNCHANGED <<watchVars, keepAliveVars, timeout_callback, watchObs>>
    /\ UNCHANGED <<sampleVars, oscVars>>

\* main.py:191: connect has returned and the coroutine that awaited it goes
\* on with the value.
CallerResumes ==
    /\ connect_pc = "returned"
    /\ connect_pc' = "idle"
    /\ connect_result' = "None"
    /\ connect_error' = NoError
    /\ succeeded_strategy' = 0
    /\ UNCHANGED <<fieldVars, strategy_i, connected, last_error, connect_sleep>>
    /\ UNCHANGED <<watchVars, keepAliveVars, timeout_callback, watchObs>>
    /\ UNCHANGED <<sampleVars, oscVars>>

(***************************************************************************)
(* The staleness watchdog                                                  *)
(***************************************************************************)

\* lines 453-461: start_timeout_monitoring(timeout_seconds)
StartTimeoutMonitoring(t) ==
    /\ IF is_monitoring_timeout
       THEN UNCHANGED <<watchVars, watchObs>>
       ELSE /\ is_monitoring_timeout' = TRUE
            /\ last_data_time' = 0
            /\ timeout_monitor_task' = "created"
            /\ monitor_timeout' = t
            /\ monitor_sleep' = 0
            /\ timeout_calls' = 0
            /\ stale_detected' = FALSE
            /\ armed_connected' = is_connected
            /\ touched' = FALSE
            /\ touch_age' = 0
    /\ UNCHANGED <<fieldVars, connectVars, keepAliveVars, timeout_callback, connectObs>>
    /\ UNCHANGED <<sampleVars, oscVars>>

\* stop_timeout_monitoring() without the cancel of line 467
StopMonitoringWithoutCancel ==
    /\ is_monitoring_timeout' = FALSE
    /\ UNCHANGED <<timeout_monitor_task, monitor_sleep>>
    /\ UNCHANGED <<last_data_time, monitor_timeout>>

\* lines 463-468: stop_timeout_monitoring().  A task that is not done is
\* cancelled: CancelledError is raised at its await and it ends (line 498).
StopMonitoring ==
    /\ is_monitoring_timeout' = FALSE
    /\ IF timeout_monitor_task \in {"created", "sleeping"}
       THEN /\ timeout_monitor_task' = "cancelled"
            /\ monitor_sleep' = 0
       ELSE UNCHANGED <<timeout_monitor_task, monitor_sleep>>
    /\ UNCHANGED <<last_data_time, monitor_timeout>>

StopTimeoutMonitoring ==
    /\ StopMonitoring
    /\ UNCHANGED <<fieldVars, connectVars, keepAliveVars, timeout_callback,
                   connectObs, watchObs>>
    /\ UNCHANGED <<sampleVars, oscVars>>

\* lines 470-472: update_data_timestamp()
UpdateDataTimestamp ==
    /\ last_data_time' = 0
    /\ touched' = TRUE
    /\ touch_age' = 0
    /\ UNCHANGED <<is_monitoring_timeout, timeout_monitor_task, monitor_timeout,
                   monitor_sleep>>
    /\ UNCHANGED <<timeout_calls, stale_detected, armed_connected>>
    /\ UNCHANGED <<fieldVars, connectVars, keepAliveVars, timeout_callback, connectObs>>
    /\ UNCHANGED <<sampleVars, oscVars>>

\* lines 477-478: the loop condition of _monitor_data_timeout and the sleep
\* that follows it.
MonitorLoop ==
    IF is_monitoring_timeout /\ is_connected
    THEN /\ timeout_monitor_task' = "sleeping"
         /\ monitor_sleep' = CheckInterval
    ELSE /\ timeout_monitor_task' = "done"
         /\ monitor_sleep' = 0

\* lines 474-478: the task created by start_timeout_monitoring runs for the
\* first time.
MonitorStarts ==
    /\ timeout_monitor_task = "created"
    /\ MonitorLoop
    /\ UNCHANGED <<last_data_time, is_monitoring_timeout, monitor_timeout>>
    /\ UNCHANGED <<fieldVars, connectVars, keepAliveVars, timeout_callback,
                   connectObs, watchObs>>
    /\ UNCHANGED <<sampleVars, oscVars>>

\* A watchdog without the break of line 496: after the callback the loop
\* goes round again.
MonitorChecksWithoutBreak ==
    /\ timeout_monitor_task = "sleeping"
    /\ monitor_sleep = 0
    /\ IF last_data_time # -1 /\ last_data_time > monitor_timeout
       THEN /\ timeout_calls' = IF timeout_callback THEN timeout_calls + 1
                                                   ELSE timeout_calls
            /\ stale_detected' = TRUE
            /\ MonitorLoop
       ELSE /\ MonitorLoop
            /\ UNCHANGED <<timeout_calls, stale_detected>>
    /\ UNCHANGED <<last_data_time, is_monitoring_timeout, monitor_timeout>>
    /\ UNCHANGED <<armed_connected, touched, touch_age>>
    /\ UNCHANGED <<fieldVars, connectVars, keepAliveVars, timeout_callback, connectObs>>
    /\ UNCHANGED <<sampleVars, oscVars>>

\* A watchdog that compares with >= at line 486: it fires when exactly
\* timeout_seconds have gone by.
MonitorChecksAtTimeout ==
    /\ timeout_monitor_task = "sleeping"
    /\ monitor_sleep = 0
    /\ IF last_data_time # -1 /\ last_data_time >= monitor_timeout
       THEN /\ timeout_calls' = IF timeout_callback THEN timeout_calls + 1
                                                   ELSE timeout_calls
            /\ stale_detected' = TRUE
            /\ timeout_monitor_task' = "done"
            /\ monitor_sleep' = 0
       ELSE /\ MonitorLoop
            /\ UNCHANGED <<timeout_calls, stale_detected>>
    /\ UNCHANGED <<last_data_time, is_monitoring_timeout, monitor_timeout>>
    /\ UNCHANGED <<armed_connected, touched, touch_age>>
    /\ UNCHANGED <<fieldVars, connectVars, keepAliveVars, timeout_callback, connectObs>>
    /\ UNCHANGED <<sampleVars, oscVars>>

\* lines 480-496: the sleep is over; the timestamp is compared and either
\* the callback is called and the loop left, or the loop goes round.
MonitorChecks ==
    /\ timeout_monitor_task = "sleeping"
    /\ monitor_sleep = 0
    /\ IF last_data_time # -1 /\ last_data_time > monitor_timeout
       THEN /\ timeout_calls' = IF timeout_callback THEN timeout_calls + 1
                                                   ELSE timeout_calls
            /\ stale_detected' = TRUE
            /\ timeout_monitor_task' = "done"
            /\ monitor_sleep' = 0
       ELSE /\ MonitorLoop
            /\ UNCHANGED <<timeout_calls, stale_detected>>
    /\ UNCHANGED <<last_data_time, is_monitoring_timeout, monitor_timeout>>
    /\ UNCHANGED <<armed_connected, touched, touch_age>>
    /\ UNCHANGED <<fieldVars, connectVars, keepAliveVars, timeout_callback, connectObs>>
    /\ UNCHANGED <<sampleVars, oscVars>>

(***************************************************************************)
(* Heart-rate and battery values                                           *)
(***************************************************************************)

\* lines 303-322 with struct.unpack('<H', ..) read from the high byte
ParseHeartRateDataBigEndian(data) ==
    IF Len(data) < 2
    THEN 0
    ELSE LET flags == data[1]
         IN  IF flags % 2 = 1
             THEN IF Len(data) >= 3 THEN 256 * data[2] + data[3] ELSE 0
             ELSE data[2]

\* lines 303-322: _parse_heart_rate_data(data); data[0] of the code is
\* data[1] here, flags & 0x01 is flags % 2 and struct.unpack('<H', data[1:3])
\* is the low byte plus 256 times the high byte.
ParseHeartRateData(data) ==
    IF Len(data) < 2
    THEN 0
    ELSE LET flags == data[1]
         IN  IF flags % 2 = 1
             THEN IF Len(data) >= 3 THEN data[2] + 256 * data[3] ELSE 0
             ELSE data[2]

\* a call of _parse_heart_rate_data with the payload at hand
ParseCall ==
    /\ parse_result = -1
    /\ parse_result' = ParseHeartRateData(parse_data)
    /\ UNCHANGED <<heart_rate_callback, battery_callback, last_heart_rate,
                   last_battery_level, parse_data, notifications,
                   heart_rate_calls, battery_calls>>
    /\ UNCHANGED <<fieldVars, watchVars, connectVars, keepAliveVars,
                   timeout_callback, connectObs, watchObs>>
    /\ UNCHANGED oscVars

\* A handler that calls update_data_timestamp() before it looks at the
\* value.
HeartRateNotificationStampsFirst(data) ==
    /\ Len(notifications) < MaxNotifications
    /\ notifications' = Append(notifications, data)
    /\ parse_data' = data
    /\ parse_result' = ParseHeartRateData(data)
    /\ last_data_time' = 0
    /\ touched' = TRUE
    /\ touch_age' = 0
    /\ IF parse_result' > 0
       THEN /\ last_heart_rate' = parse_result'
            /\ heart_rate_calls' = IF heart_rate_callback
                                   THEN Append(heart_rate_calls, parse_result')
                                   ELSE heart_rate_calls
       ELSE UNCHANGED <<last_heart_rate, heart_rate_calls>>
    /\ UNCHANGED <<heart_rate_callback, battery_callback, last_battery_level,
                   battery_calls>>
    /\ UNCHANGED <<is_monitoring_timeout, timeout_monitor_task, monitor_timeout,
                   monitor_sleep>>
    /\ UNCHANGED <<timeout_calls, stale_detected, armed_connected>>
    /\ UNCHANGED <<fieldVars, connectVars, keepAliveVars, timeout_callback,
                   connectObs>>
    /\ UNCHANGED oscVars

\* lines 280-301: _heart_rate_notification_handler, which bleak calls once
\* for each notification of the heart-rate characteristic, in their order.
\* Lines 291 (update_data_timestamp) and 294-298 (the callback, whose
\* exceptions are caught) run only for a value above 0.
HeartRateNotification(data) ==
    /\ Len(notifications) < MaxNotifications
    /\ notifications' = Append(notifications, data)
    /\ parse_data' = data
    /\ parse_result' = ParseHeartRateData(data)
    /\ IF parse_result' > 0
       THEN /\ last_heart_rate' = parse_result'
            /\ last_data_time' = 0
            /\ touched' = TRUE
            /\ touch_age' = 0
            /\ heart_rate_calls' = IF heart_rate_callback
                                   THEN Append(heart_rate_calls, parse_result')
                                   ELSE heart_rate_calls
       ELSE UNCHANGED <<last_heart_rate, last_data_time, touched, touch_age,
                        heart_rate_calls>>
    /\ UNCHANGED <<heart_rate_callback, battery_callback, last_battery_level,
                   battery_calls>>
    /\ UNCHANGED <<is_monitoring_timeout, timeout_monitor_task, monitor_timeout,
                   monitor_sleep>>
    /\ UNCHANGED <<timeout_calls, stale_detected, armed_connected>>
    /\ UNCHANGED <<fieldVars, connectVars, keepAliveVars, timeout_callback,
                   connectObs>>
    /\ UNCHANGED oscVars

\* lines 348-360 and 369-379: what both battery paths do with the bytes of
\* the battery characteristic.
TakeBatteryLevel(data) ==
    /\ Len(battery_calls) < MaxBatteryCalls
    /\ IF Len(data) > 0
       THEN /\ last_battery_level' = data[1]
            /\ battery_calls' = IF battery_callback
                                THEN Append(battery_calls, data[1])
                                ELSE battery_calls
       ELSE UNCHANGED <<last_battery_level, battery_calls>>
    /\ UNCHANGED <<heart_rate_callback, battery_callback, last_heart_rate,
                   parse_data, parse_result, notifications, heart_rate_calls>>
    /\ UNCHANGED <<fieldVars, watchVars, connectVars, keepAliveVars,
                   timeout_callback, connectObs, watchObs>>
    /\ UNCHANGED oscVars

\* lines 345-364: _read_battery_level from `await read_gatt_char` returning
\* on; it is the initial read of line 328 and the poll of line 389.
ReadBatteryLevel(battery_data) == TakeBatteryLevel(battery_data)

\* lines 366-382: _battery_notification_handler
BatteryNotification(data) == TakeBatteryLevel(data)

(***************************************************************************)
(* keep_alive()                                                            *)
(***************************************************************************)

\* lines 422-427, 443-445: the top of the loop, up to its sleep.
KeepAliveLoop(connected_now) ==
    IF connected_now /\ client # "None"
    THEN /\ keep_alive_pc' = "sleep30"
         /\ keep_alive_sleep' = ProbeInterval
    ELSE /\ keep_alive_pc' = "wait5"
         /\ keep_alive_sleep' = RetryInterval

\* main.py:277: asyncio.create_task(self.bluetooth_client.keep_alive())
StartKeepAlive ==
    /\ keep_alive_pc = "None"
    /\ keep_alive_pc' = "created"
    /\ UNCHANGED keep_alive_sleep
    /\ UNCHANGED <<fieldVars, watchVars, connectVars, timeout_callback,
                   connectObs, watchObs>>
    /\ UNCHANGED <<sampleVars, oscVars>>

\* lines 420-427, 443-445: the task runs for the first time, or its five
\* second sleep (line 445 or 451) is over.
KeepAliveWaits ==
    /\ \/ keep_alive_pc = "created"
       \/ keep_alive_pc = "wait5" /\ keep_alive_sleep = 0
    /\ KeepAliveLoop(is_connected)
    /\ UNCHANGED <<fieldVars, watchVars, connectVars, timeout_callback,
                   connectObs, watchObs>>
    /\ UNCHANGED <<sampleVars, oscVars>>

\* lines 427-441: the thirty second sleep is over.  A missing handle or a
\* transport that reports disconnected clears is_connected and the loop goes
\* round; otherwise the probe read is awaited.
KeepAliveChecks ==
    /\ keep_alive_pc = "sleep30"
    /\ keep_alive_sleep = 0
    /\ IF client = "None" \/ ~client_is_connected
       THEN /\ is_connected' = FALSE
            /\ KeepAliveLoop(FALSE)
       ELSE /\ keep_alive_pc' = "probe"
            /\ keep_alive_sleep' = 0
            /\ UNCHANGED is_connected
    /\ UNCHANGED <<client, client_is_connected, client_timeout>>
    /\ UNCHANGED <<watchVars, connectVars, timeout_callback, connectObs, watchObs>>
    /\ UNCHANGED <<sampleVars, oscVars>>

\* lines 441-442: the probe read returns and the loop goes round.
KeepAliveProbeReturns ==
    /\ keep_alive_pc = "probe"
    /\ KeepAliveLoop(is_connected)
    /\ UNCHANGED <<fieldVars, watchVars, connectVars, timeout_callback,
                   connectObs, watchObs>>
    /\ UNCHANGED <<sampleVars, oscVars>>

\* A keep_alive whose except clause only logs and waits.
KeepAliveProbeRaisesIgnored ==
    /\ keep_alive_pc = "probe"
    /\ keep_alive_pc' = "wait5"
    /\ keep_alive_sleep' = RetryInterval
    /\ UNCHANGED <<fieldVars, watchVars, connectVars, timeout_callback,
                   connectObs, watchObs>>
    /\ UNCHANGED <<sampleVars, oscVars>>

\* lines 441, 447-451: the probe read raises.
KeepAliveProbeRaises ==
    /\ keep_alive_pc = "probe"
    /\ is_connected' = FALSE
    /\ keep_alive_pc' = "wait5"
    /\ keep_alive_sleep' = RetryInterval
    /\ UNCHANGED <<client, client_is_connected, client_timeout>>
    /\ UNCHANGED <<watchVars, connectVars, timeout_callback, connectObs, watchObs>>
    /\ UNCHANGED <<sampleVars, oscVars>>

(***************************************************************************)
(* disconnect() and the device                                             *)
(***************************************************************************)

\* lines 249-264: disconnect(), called by the owner of the session once
\* connect has returned.
Disconnect ==
    /\ connect_pc = "idle"
    /\ StopMonitoring
    /\ is_connected' = FALSE
    /\ client' = "None"
    /\ client_is_connected' = FALSE
    /\ client_timeout' = 0
    /\ UNCHANGED <<connectVars, keepAliveVars, timeout_callback, connectObs, watchObs>>
    /\ UNCHANGED <<sampleVars, oscVars>>

\* The device goes out of range or switches off: BleakClient.is_connected
\* turns False.
LinkLost ==
    /\ client = "BleakClient"
    /\ client_is_connected
    /\ client_is_connected' = FALSE
    /\ UNCHANGED <<client, client_timeout, is_connected>>
    /\ UNCHANGED <<watchVars, connectVars, keepAliveVars, timeout_callback,
                   connectObs, watchObs>>
    /\ UNCHANGED <<sampleVars, oscVars>>

(***************************************************************************)
(* The clock: a second passes, unless a sleep that is over, a task that    *)
(* was just created or the coroutine connect has returned to has not run   *)
(* yet.                                                                    *)
(***************************************************************************)
SleepDue ==
    \/ connect_pc \in {"backoff", "stabilise"} /\ connect_sleep = 0
    \/ connect_pc = "returned"
    \/ timeout_monitor_task = "sleeping" /\ monitor_sleep = 0
    \/ timeout_monitor_task = "created"
    \/ keep_alive_pc \in {"sleep30", "wait5"} /\ keep_alive_sleep = 0
    \/ keep_alive_pc = "created"

Older(age) == IF age = -1 \/ age = MaxAge THEN age ELSE age + 1

Sooner(left) == IF left = 0 THEN 0 ELSE left - 1

Tick ==
    /\ ~SleepDue
    /\ connect_sleep' = Sooner(connect_sleep)
    /\ monitor_sleep' = Sooner(monitor_sleep)
    /\ keep_alive_sleep' = Sooner(keep_alive_sleep)
    /\ last_data_time' = Older(last_data_time)
    /\ touch_age' = Older(touch_age)
    /\ UNCHANGED <<fieldVars, is_monitoring_timeout, timeout_monitor_task,
                   monitor_timeout, connect_pc, strategy_i, connected, last_error,
                   keep_alive_pc, timeout_callback, connectObs>>
    /\ UNCHANGED <<timeout_calls, stale_detected, armed_connected, touched>>
    /\ UNCHANGED <<sampleVars, oscVars>>

(***************************************************************************)
(* VRChatOSCClient                                                         *)
(***************************************************************************)
\* the keepalive threads, by the order they were started in
Workers == 1..MaxWorkers

\* A message: its address and its value, a float as num / den, an int as
\* num, a bool as num 1 or 0.
Message(address, type, num, den) ==
    [address |-> address, type |-> type, num |-> num, den |-> den]

NoMessage == Message("None", "None", 0, 1)

NoCall == [heart_rate |-> 0, battery_level |-> -1, outcome |-> "None",
           returned |-> FALSE]

\* osc_client.py:14-23  __init__
InitOsc ==
    /\ osc_client = "None"
    /\ osc_connected = FALSE
    /\ osc_running = FALSE
    /\ osc_last_heart_rate = 0
    /\ hb_toggle = FALSE
    /\ heart_rate_history = <<>>
    /\ keepalive_thread = 0
    /\ worker_pc = [w \in Workers |-> "none"]
    /\ worker_sleep = [w \in Workers |-> 0]
    /\ osc_disconnect_pc = "idle"
    /\ join_left = 0
    /\ keepalive_sent = NoMessage
    /\ last_call = NoCall
    /\ sent = <<>>
    /\ send_failed = FALSE
    /\ accepted_calls = <<>>
    /\ all_delivered = TRUE

\* a thread that was never started or has ended
Free(w) == worker_pc[w] \in {"none", "dead"}

\* osc_client.py:25-35, 182-191  connect(): the UDP client is created and
\* the keepalive thread is started; the threads started before are left
\* alone.
OscConnect ==
    /\ osc_disconnect_pc = "idle"
    /\ \E w \in Workers :
          /\ Free(w)
          /\ \A v \in Workers : Free(v) => w <= v
          /\ keepalive_thread' = w
          /\ worker_pc' = [worker_pc EXCEPT ![w] = "created"]
          /\ worker_sleep' = [worker_sleep EXCEPT ![w] = 0]
    /\ osc_client' = "SimpleUDPClient"
    /\ osc_connected' = TRUE
    /\ osc_running' = TRUE
    /\ UNCHANGED <<osc_disconnect_pc, join_left, keepalive_sent>>
    /\ UNCHANGED <<configVars, encoderVars, oscObs>>
    /\ UNCHANGED <<bleVars, appVars>>

\* osc_client.py:42-50  disconnect() from its call to its return: the flags
\* are cleared and the thread is joined for at most one second; the thread
\* itself is not touched.
OscDisconnect ==
    /\ osc_disconnect_pc = "idle"
    /\ osc_running' = FALSE
    /\ osc_connected' = FALSE
    /\ UNCHANGED <<osc_client, keepalive_thread>>
    /\ UNCHANGED <<configVars, encoderVars, oscObs, threadVars>>
    /\ UNCHANGED <<bleVars, appVars>>

(***************************************************************************)
(* The keepalive thread and disconnect() step by step.  The thread is a    *)
(* real thread: between any two of its steps the calling thread may run    *)
(* and time may pass.                                                      *)
(***************************************************************************)

\* osc_client.py:177  the message of send_keepalive
KeepaliveMessage == Message(BluetoothHRConnectedAddress, "b", 1, 1)

\* osc_client.py:187  time.sleep(Config.KEEPALIVE_INTERVAL)
WorkerSleeps(w) ==
    /\ worker_pc' = [worker_pc EXCEPT ![w] = "sleeping"]
    /\ worker_sleep' = [worker_sleep EXCEPT ![w] = KEEPALIVE_INTERVAL]

\* osc_client.py:185  `while self.running`, evaluated when the thread starts
\* and after each sleep; the thread ends when it finds running False.
WorkerChecksRunning(w) ==
    /\ \/ worker_pc[w] = "created"
       \/ worker_pc[w] = "sleeping" /\ worker_sleep[w] = 0
    /\ worker_pc' = [worker_pc EXCEPT ![w] =
                        IF osc_running THEN "send_keepalive" ELSE "dead"]
    /\ UNCHANGED <<worker_sleep, osc_disconnect_pc, join_left, keepalive_sent>>
    /\ UNCHANGED <<configVars, oscFields, encoderVars, oscObs>>
    /\ UNCHANGED <<bleVars, appVars>>

\* osc_client.py:172-173, 187  the check of send_keepalive: without a
\* connection it returns and the thread sleeps.
WorkerChecksConnected(w) ==
    /\ worker_pc[w] = "send_keepalive"
    /\ IF ~osc_connected \/ osc_client = "None"
       THEN WorkerSleeps(w)
       ELSE /\ worker_pc' = [worker_pc EXCEPT ![w] = "checked"]
            /\ UNCHANGED worker_sleep
    /\ UNCHANGED <<osc_disconnect_pc, join_left, keepalive_sent>>
    /\ UNCHANGED <<configVars, oscFields, encoderVars, oscObs>>
    /\ UNCHANGED <<bleVars, appVars>>

\* osc_client.py:177  send_message is called
WorkerCallsSend(w) ==
    /\ worker_pc[w] = "checked"
    /\ worker_pc' = [worker_pc EXCEPT ![w] = "sending"]
    /\ keepalive_sent' = KeepaliveMessage
    /\ UNCHANGED <<worker_sleep, osc_disconnect_pc, join_left>>
    /\ UNCHANGED <<configVars, oscFields, encoderVars, oscObs>>
    /\ UNCHANGED <<bleVars, appVars>>

\* osc_client.py:177-178, 187  send_message returns
WorkerSendReturns(w) ==
    /\ worker_pc[w] = "sending"
    /\ WorkerSleeps(w)
    /\ UNCHANGED <<osc_disconnect_pc, join_left, keepalive_sent>>
    /\ UNCHANGED <<configVars, oscFields, encoderVars, oscObs>>
    /\ UNCHANGED <<bleVars, appVars>>

\* A thread whose failed send is not caught: it ends.
WorkerSendRaisesAndEnds(w) ==
    /\ worker_pc[w] = "sending"
    /\ worker_pc' = [worker_pc EXCEPT ![w] = "dead"]
    /\ UNCHANGED <<worker_sleep, osc_disconnect_pc, join_left, keepalive_sent>>
    /\ UNCHANGED <<configVars, oscFields, encoderVars, oscObs>>
    /\ UNCHANGED <<bleVars, appVars>>

\* osc_client.py:177-180, 187  send_message raises: the error is logged by
\* send_keepalive and the thread sleeps as after a send that returned.
WorkerSendRaises(w) ==
    /\ worker_pc[w] = "sending"
    /\ WorkerSleeps(w)
    /\ UNCHANGED <<osc_disconnect_pc, join_left, keepalive_sent>>
    /\ UNCHANGED <<configVars, oscFields, encoderVars, oscObs>>
    /\ UNCHANGED <<bleVars, appVars>>

\* osc_client.py:44-48  disconnect() up to its join: the flags are cleared;
\* without a thread that is alive disconnect returns at once.
OscDisconnectBegins ==
    /\ osc_disconnect_pc = "idle"
    /\ osc_running' = FALSE
    /\ osc_connected' = FALSE
    /\ IF keepalive_thread # 0 /\ ~Free(keepalive_thread)
       THEN /\ osc_disconnect_pc' = "join"
            /\ join_left' = JoinTimeout
       ELSE UNCHANGED <<osc_disconnect_pc, join_left>>
    /\ UNCHANGED <<osc_client, keepalive_thread>>
    /\ UNCHANGED <<worker_pc, worker_sleep, keepalive_sent>>
    /\ UNCHANGED <<configVars, encoderVars, oscObs>>
    /\ UNCHANGED <<bleVars, appVars>>

\* A join without a timeout: it returns only when the thread has ended.
OscJoinWithoutTimeout ==
    /\ osc_disconnect_pc = "join"
    /\ Free(keepalive_thread)
    /\ osc_disconnect_pc' = "idle"
    /\ join_left' = 0
    /\ UNCHANGED <<worker_pc, worker_sleep, keepalive_sent>>
    /\ UNCHANGED <<configVars, oscFields, encoderVars, oscObs>>
    /\ UNCHANGED <<bleVars, appVars>>

\* osc_client.py:48-50  join(timeout=1) returns, the thread having ended or
\* the second being over, and disconnect returns.
OscJoinReturns ==
    /\ osc_disconnect_pc = "join"
    /\ Free(keepalive_thread) \/ join_left = 0
    /\ osc_disconnect_pc' = "idle"
    /\ join_left' = 0
    /\ UNCHANGED <<worker_pc, worker_sleep, keepalive_sent>>
    /\ UNCHANGED <<configVars, oscFields, encoderVars, oscObs>>
    /\ UNCHANGED <<bleVars, appVars>>

\* osc_client.py:193-206  send_connection_status(connected): the message it
\* gives to send_message, if it gets that far
ConnectionStatusSent(connected_arg) ==
    IF ~osc_connected \/ osc_client = "None"
    THEN keepalive_sent
    ELSE Message(BluetoothHRConnectedAddress, "b", IF connected_arg THEN 1 ELSE 0, 1)

\* main.py:292-302  cleanup() up to the call of the gateway's disconnect():
\* the BLE client is disconnected (bluetooth_client.py:249-264) and
\* send_connection_status(False) is called.
CleanupSendsStatus ==
    /\ cleanup_pc = "None"
    /\ osc_disconnect_pc = "idle"
    /\ connect_pc = "idle"
    /\ cleanup_pc' = "status_sent"
    /\ StopMonitoring
    /\ is_connected' = FALSE
    /\ client' = "None"
    /\ client_is_connected' = FALSE
    /\ client_timeout' = 0
    /\ keepalive_sent' = ConnectionStatusSent(FALSE)
    /\ UNCHANGED <<connectVars, keepAliveVars, timeout_callback, connectObs,
                   watchObs, sampleVars>>
    /\ UNCHANGED <<worker_pc, worker_sleep, osc_disconnect_pc, join_left>>
    /\ UNCHANGED <<configVars, oscFields, encoderVars, oscObs>>

\* main.py:303, osc_client.py:44-48  cleanup() calls disconnect(): the
\* flags are cleared and the thread, if alive, is joined.
CleanupDisconnects ==
    /\ cleanup_pc = "status_sent"
    /\ cleanup_pc' = "disconnect"
    /\ osc_running' = FALSE
    /\ osc_connected' = FALSE
    /\ IF keepalive_thread # 0 /\ ~Free(keepalive_thread)
       THEN /\ osc_disconnect_pc' = "join"
            /\ join_left' = JoinTimeout
       ELSE UNCHANGED <<osc_disconnect_pc, join_left>>
    /\ UNCHANGED <<osc_client, keepalive_thread>>
    /\ UNCHANGED <<worker_pc, worker_sleep, keepalive_sent>>
    /\ UNCHANGED <<configVars, encoderVars, oscObs>>
    /\ UNCHANGED bleVars

\* A second passes for the threads: a sleep or a join that is over may
\* still return later, a thread is not run at once.
OscTick ==
    /\ \/ join_left > 0
       \/ \E w \in Workers : worker_sleep[w] > 0
    /\ worker_sleep' = [w \in Workers |-> Sooner(worker_sleep[w])]
    /\ join_left' = Sooner(join_left)
    /\ UNCHANGED <<worker_pc, osc_disconnect_pc, keepalive_sent>>
    /\ UNCHANGED <<configVars, oscFields, encoderVars, oscObs>>
    /\ UNCHANGED <<bleVars, appVars>>

RECURSIVE Sum(_)
Sum(s) == IF s = <<>> THEN 0 ELSE Head(s) + Sum(Tail(s))

\* A rounding that takes a half upwards, as int(total / n + 0.5) would.
RoundHalfUp(total, n) ==
    LET q == total \div n
        r == total % n
    IN  IF 2 * r < n THEN q ELSE q + 1

\* osc_client.py:168  int(round(total / n)): Python 3 rounds a half to the
\* even neighbour.
PyRound(total, n) ==
    LET q == total \div n
        r == total % n
    IN  IF 2 * r < n THEN q
        ELSE IF 2 * r > n THEN q + 1
        ELSE IF q % 2 = 0 THEN q ELSE q + 1

\* A deque without maxlen.
DequeAppendUnbounded(history, heart_rate) ==
    Append(history, heart_rate)

\* osc_client.py:23, 161  deque(maxlen=SMOOTHING_WINDOW_SIZE).append
DequeAppend(history, heart_rate) ==
    IF Len(history) = SMOOTHING_WINDOW_SIZE
    THEN Append(Tail(history), heart_rate)
    ELSE Append(history, heart_rate)

\* osc_client.py:159-168  _smooth_heart_rate: the value it returns, given
\* the history after the append.
SmoothHeartRate(history, heart_rate) ==
    IF Len(history) < 2
    THEN heart_rate
    ELSE PyRound(Sum(history), Len(history))

\* A list with the two integer messages ahead of the 0..1 floats.
HeartratesIntegersFirst(heart_rate, toggle, battery_level) ==
    <<Message(HeartrateAddress, "f", heart_rate - 127, 127),
      Message(HeartRateFloatAddress, "f", heart_rate - 127, 127),
      Message(Heartrate3Address, "i", heart_rate, 1),
      Message(HeartRateIntAddress, "i", heart_rate, 1),
      Message(Heartrate2Address, "f", heart_rate, 255),
      Message(HeartRateFloat01Address, "f", heart_rate, 255),
      Message(HeartBeatToggleAddress, "b", IF toggle THEN 1 ELSE 0, 1)>>
    \o (IF battery_level # -1
        THEN <<Message(BluetoothBatteryAddress, "f", battery_level, 100)>>
        ELSE <<>>)

\* osc_client.py:69-129  the list heartrates
Heartrates(heart_rate, toggle, battery_level) ==
    <<Message(HeartrateAddress, "f", heart_rate - 127, 127),
      Message(HeartRateFloatAddress, "f", heart_rate - 127, 127),
      Message(Heartrate2Address, "f", heart_rate, 255),
      Message(HeartRateFloat01Address, "f", heart_rate, 255),
      Message(Heartrate3Address, "i", heart_rate, 1),
      Message(HeartRateIntAddress, "i", heart_rate, 1),
      Message(HeartBeatToggleAddress, "b", IF toggle THEN 1 ELSE 0, 1)>>
    \o (IF battery_level # -1
        THEN <<Message(BluetoothBatteryAddress, "f", battery_level, 100)>>
        ELSE <<>>)

\* A pass of the send loop whose except clause leaves the loop.
SendOneOrAbort(element, failing, acc) ==
    [attempted |-> Append(acc.attempted, element),
     failed |-> (acc.failed \/ element.address \in failing),
     toggle |-> IF element.address \notin failing
                   /\ element.address = HeartBeatToggleAddress
                THEN ~acc.toggle ELSE acc.toggle,
     go_on |-> element.address \notin failing]

\* A pass of the send loop without lines 140-141: the bit is never flipped.
SendOneWithoutFlip(element, failing, acc) ==
    [attempted |-> Append(acc.attempted, element),
     failed |-> (acc.failed \/ element.address \in failing),
     toggle |-> acc.toggle,
     go_on |-> TRUE]

\* osc_client.py:133-144  one pass of the send loop: send_message is called;
\* when it returns and the address is HeartBeatToggle the bit is flipped,
\* when it raises the error is logged and the loop goes on.
SendOne(element, failing, acc) ==
    [attempted |-> Append(acc.attempted, element),
     failed |-> (acc.failed \/ element.address \in failing),
     toggle |-> IF element.address \notin failing
                   /\ element.address = HeartBeatToggleAddress
                THEN ~acc.toggle ELSE acc.toggle,
     go_on |-> TRUE]

\* osc_client.py:132-144  the send loop
RECURSIVE SendAll(_, _, _)
SendAll(elements, failing, acc) ==
    IF elements = <<>> \/ ~acc.go_on
    THEN acc
    ELSE SendAll(Tail(elements), failing, SendOne(Head(elements), failing, acc))

\* A range check that forgets the lower end.
InRangeFromAbove(heart_rate) ==
    heart_rate <= HEART_RATE_MAX

\* A range check that forgets the upper end.
InRangeFromBelow(heart_rate) ==
    HEART_RATE_MIN <= heart_rate

\* osc_client.py:58-61  the range check
InRange(heart_rate) ==
    HEART_RATE_MIN <= heart_rate /\ heart_rate <= HEART_RATE_MAX

\* osc_client.py:52-61  send_heart_rate returns False before anything is
\* sent.
SendNothing(heart_rate, battery_level, why) ==
    /\ last_call' = [heart_rate |-> heart_rate, battery_level |-> battery_level,
                     outcome |-> why, returned |-> FALSE]
    /\ sent' = <<>>
    /\ send_failed' = FALSE
    /\ UNCHANGED <<encoderVars, accepted_calls, all_delivered>>

\* osc_client.py:63-66  the value that is sent and the history it leaves
Smoothed(heart_rate) ==
    IF HEART_RATE_SMOOTHING
    THEN LET history == DequeAppend(heart_rate_history, heart_rate)
         IN  [history |-> history, h |-> SmoothHeartRate(history, heart_rate)]
    ELSE [history |-> heart_rate_history, h |-> heart_rate]

\* osc_client.py:52-157  send_heart_rate(heart_rate, battery_level), with
\* send_message raising for any of the addresses in faulty.
SendHeartRate(heart_rate, battery_level, faulty) ==
    /\ osc_disconnect_pc = "idle"
    /\ IF ~osc_connected \/ osc_client = "None"
       THEN SendNothing(heart_rate, battery_level, "not_connected")
       ELSE IF ~InRange(heart_rate)
       THEN SendNothing(heart_rate, battery_level, "rejected")
       ELSE LET value == Smoothed(heart_rate)
                heartrates == Heartrates(value.h, hb_toggle, battery_level)
                addresses == {heartrates[k].address : k \in 1..Len(heartrates)}
            IN  \E failing \in SUBSET (faulty \cap addresses) :
                  LET done == SendAll(heartrates, failing,
                                      [attempted |-> <<>>, failed |-> FALSE,
                                       toggle |-> hb_toggle, go_on |-> TRUE])
                  IN  /\ heart_rate_history' = value.history
                      /\ hb_toggle' = done.toggle
                      /\ osc_last_heart_rate' = value.h
                      /\ last_call' = [heart_rate |-> heart_rate,
                                       battery_level |-> battery_level,
                                       outcome |-> "accepted", returned |-> TRUE]
                      /\ sent' = done.attempted
                      /\ send_failed' = done.failed
                      /\ accepted_calls' = Append(accepted_calls,
                             [raw |-> heart_rate, h |-> value.h, toggle |-> hb_toggle])
                      /\ all_delivered' = (all_delivered /\ ~done.failed)
    /\ UNCHANGED <<configVars, oscFields, threadVars>>
    /\ UNCHANGED <<bleVars, appVars>>

(***************************************************************************)
(* Specifications                                                          *)
(***************************************************************************)
\* config.py:19-20: the defaults, smoothing off and a window of 5
\* main.py:292  cleanup() has not been called
InitApp == cleanup_pc = "None"

\* main.py:185  BluetoothHeartRateClient(self.heart_rate_callback)
MainCallbacks == heart_rate_callback = TRUE /\ battery_callback = FALSE

DefaultConfig ==
    /\ HEART_RATE_SMOOTHING = FALSE
    /\ SMOOTHING_WINDOW_SIZE = 5

\* both settings as set through the environment
AnyConfig ==
    /\ HEART_RATE_SMOOTHING \in BOOLEAN
    /\ SMOOTHING_WINDOW_SIZE \in WindowSizes

\* bluetooth_client.py:22-30: a client made with or without a timeout
\* callback; main.py:185 gives none.
Init == InitBle /\ MainCallbacks /\ parse_data = <<>>
    /\ timeout_callback \in BOOLEAN /\ InitOsc /\ InitApp /\ DefaultConfig

\* a client made with a timeout callback
InitProbe == InitBle /\ MainCallbacks /\ parse_data = <<>>
    /\ timeout_callback = TRUE /\ InitOsc /\ InitApp /\ DefaultConfig

InitGateway == InitBle /\ MainCallbacks /\ parse_data = <<>>
    /\ timeout_callback = FALSE /\ InitOsc /\ InitApp /\ AnyConfig

InitKeepalive == InitBle /\ MainCallbacks /\ parse_data = <<>>
    /\ timeout_callback = FALSE /\ InitOsc /\ InitApp /\ DefaultConfig

\* a payload to parse
InitParse == InitBle /\ MainCallbacks /\ parse_data \in Payloads
    /\ timeout_callback = FALSE /\ InitOsc /\ InitApp /\ DefaultConfig

\* a client made with a heart-rate callback, with or without a battery
\* callback
InitSamples == InitBle /\ heart_rate_callback = TRUE
    /\ battery_callback \in BOOLEAN /\ parse_data = <<>>
    /\ timeout_callback = FALSE /\ InitOsc /\ InitApp /\ DefaultConfig

\* the session: connect, the watchdog, disconnect
Next ==
    \/ Connect
    \/ StrategyRaises
    \/ BackoffEnds
    \/ StrategySucceeds
    \/ StrategyReturnsUnconnected
    \/ ReadDeviceName
    \/ ReadManufacturer
    \/ ReadModel
    \/ ArmAfterStabilise
    \/ CallerResumes
    \/ \E t \in Timeouts : StartTimeoutMonitoring(t)
    \/ StopTimeoutMonitoring
    \/ UpdateDataTimestamp
    \/ MonitorStarts
    \/ MonitorChecks
    \/ Disconnect
    \/ LinkLost
    \/ Tick

Spec == Init /\ [][Next]_vars

\* the session with its liveness probe
NextWithProbe ==
    \/ Next
    \/ StartKeepAlive
    \/ KeepAliveWaits
    \/ KeepAliveChecks
    \/ KeepAliveProbeReturns
    \/ KeepAliveProbeRaises

SpecProbe == InitProbe /\ [][NextWithProbe]_vars

\* the gateway, with send_message failing for any set of addresses
NextFanOut ==
    \/ OscConnect
    \/ OscDisconnect
    \/ \E hr \in FanOutRates, b \in BatteryLevels :
          /\ Len(accepted_calls) < MaxFanOutCalls \/ ~InRange(hr)
          /\ SendHeartRate(hr, b, Addresses)

SpecFanOut == InitGateway /\ [][NextFanOut]_vars

\* the gateway over longer runs of samples, with send_message never failing
NextEncoder ==
    \/ OscConnect
    \/ OscDisconnect
    \/ \E hr \in HeartRates, b \in BatteryLevels :
          /\ Len(accepted_calls) < MaxCalls \/ ~InRange(hr)
          /\ SendHeartRate(hr, b, {})

SpecEncoder == InitGateway /\ [][NextEncoder]_vars

\* the gateway with its keepalive threads, heart rates arriving or not
WorkerStep(w) ==
    \/ WorkerChecksRunning(w)
    \/ WorkerChecksConnected(w)
    \/ WorkerCallsSend(w)
    \/ WorkerSendReturns(w)
    \/ WorkerSendRaises(w)

NextKeepalive ==
    \/ OscConnect
    \/ OscDisconnectBegins
    \/ OscJoinReturns
    \/ OscTick
    \/ \E w \in Workers : WorkerChecksRunning(w)
    \/ \E w \in Workers : WorkerChecksConnected(w)
    \/ \E w \in Workers : WorkerCallsSend(w)
    \/ \E w \in Workers : WorkerSendReturns(w)
    \/ \E w \in Workers : WorkerSendRaises(w)
    \/ /\ Len(accepted_calls) < 1
       /\ SendHeartRate(80, -1, {})

SpecKeepalive == InitKeepalive /\ [][NextKeepalive]_vars

\* the gateway with its keepalive threads until the application cleans up
\* (main.py:292-305) and after
NextCleanup ==
    \/ cleanup_pc = "None" /\ OscConnect
    \/ cleanup_pc = "None" /\ OscDisconnectBegins
    \/ CleanupSendsStatus
    \/ CleanupDisconnects
    \/ OscJoinReturns
    \/ OscTick
    \/ \E w \in Workers : WorkerChecksRunning(w)
    \/ \E w \in Workers : WorkerChecksConnected(w)
    \/ \E w \in Workers : WorkerCallsSend(w)
    \/ \E w \in Workers : WorkerSendReturns(w)
    \/ \E w \in Workers : WorkerSendRaises(w)

SpecCleanup == InitKeepalive /\ [][NextCleanup]_vars

\* time passes and a join that can return does; a send_message call may
\* hang for ever
SpecJoin ==
    /\ InitKeepalive
    /\ [][NextKeepalive]_vars
    /\ WF_vars(OscTick)
    /\ WF_vars(OscJoinReturns)

\* time passes, every thread is run again and again, and every
\* send_message call ends
SpecBeat ==
    /\ InitKeepalive
    /\ [][NextKeepalive]_vars
    /\ WF_vars(OscTick)
    /\ WF_vars(OscJoinReturns)
    /\ \A w \in Workers : WF_vars(WorkerStep(w))

\* the decoder alone
SpecParse == InitParse /\ [][ParseCall]_vars

\* the notifications and reads of a session, in any order
NextSamples ==
    \/ \E data \in NotifiedPayloads : HeartRateNotification(data)
    \/ \E data \in BatteryPayloads : BatteryNotification(data)
    \/ \E battery_data \in BatteryPayloads : ReadBatteryLevel(battery_data)

SpecSamples == InitSamples /\ [][NextSamples]_vars

(***************************************************************************)
(* Properties of connect()                                                 *)
(***************************************************************************)

\* C1: when one of the strategies of connect has connected, whichever of the
\* three, connect returns True and leaves is_connected True.
C1_SucceededStrategyConnects ==
    connect_pc = "returned" /\ succeeded_strategy \in 1..Len(connection_strategies)
        => connect_result = "True" /\ is_connected

\* C2: when no strategy of connect has connected, connect returns False,
\* is_connected is False, the handle is dropped, and the error it reports
\* quotes the cause of the last attempt, the third one, whether that
\* attempt raised or returned without being connected.
C2_AllFailedSurfacesLastCause ==
    connect_pc = "returned" /\ succeeded_strategy = 0
        => /\ connect_result = "False"
           /\ ~is_connected
           /\ client = "None"
           /\ connect_error = AllStrategiesFailed(Len(connection_strategies))

\* C25: when the sleep of line 189 is over, connect goes on to set up the
\* notifications (lines 195-236) with the session connected and its handle
\* kept; whatever the set-up does, connect has not failed.
C25_NotifySetupIsNonFatal ==
    [][(connect_pc = "stabilise" /\ connect_pc' # "stabilise") =>
           /\ is_connected'
           /\ client' = "BleakClient"
           /\ connect_result' # "False"]_vars

\* C26: once a strategy has connected, connect returns True with the
\* session connected, whatever the reads of the device name, the
\* manufacturer and the model and the enumeration of the services did.
C26_OptionalStepsDoNotDecide ==
    [][(/\ connect_pc \in {"read_name", "read_manufacturer", "read_model",
                           "stabilise"}
        /\ connect_pc' = "returned") =>
           /\ connect_result' = "True"
           /\ is_connected'
           /\ client_is_connected']_vars

\* C31: when connect returns False, after all strategies have failed or
\* after one has connected, is_connected is False and the handle is
\* disconnected and dropped; and no step of connect changes the watchdog,
\* so that none started by the attempt is left.
C31_FailedConnectLeavesSessionClean ==
    [][/\ (connect_pc # "returned" /\ connect_pc' = "returned"
           /\ connect_result' = "False") =>
              /\ ~is_connected'
              /\ client' = "None"
              /\ ~client_is_connected'
       /\ connect_pc' # connect_pc => UNCHANGED watchVars]_vars

\* C31 happens: connect has returned False after its second strategy had
\* connected, on a client whose watchdog a caller had armed.
C31_Witness ==
    /\ connect_pc = "returned"
    /\ connect_result = "False"
    /\ succeeded_strategy = 2
    /\ connect_error = AttributeError
    /\ ~is_connected
    /\ client = "None"
    /\ is_monitoring_timeout

\* an attempt begins: connect awaits self.client.connect() of a strategy
AttemptBegins ==
    /\ connect_pc' = "connecting"
    /\ connect_pc # "connecting" \/ strategy_i' # strategy_i

\* C20: connect attempts the strategies in their order, 15, 25 and 35
\* seconds, the first when it is called and each further one only after the
\* one before has failed and the backoff of 2 seconds that follows it is
\* over; there is no attempt after one has connected, and the backoff is
\* taken after a failed attempt that is not the last, never after the last.
C20_StrategiesInOrderWithBackoff ==
    [][/\ AttemptBegins =>
              /\ strategy_i' \in 1..Len(connection_strategies)
              /\ client_timeout' = connection_strategies[strategy_i']
              /\ ~connected
              /\ (strategy_i' = 1) => (connect_pc = "idle")
              /\ (strategy_i' > 1) =>
                     /\ strategy_i' = strategy_i + 1
                     /\ connect_pc = "backoff"
                     /\ connect_sleep = 0
       /\ (connect_pc' = "backoff" /\ connect_pc # "backoff") =>
              /\ connect_pc = "connecting"
              /\ strategy_i < Len(connection_strategies)
              /\ connect_sleep' = BackoffSeconds]_vars

(***************************************************************************)
(* Properties of the staleness watchdog                                    *)
(***************************************************************************)

\* C3: since the watchdog was last armed the timeout callback has been
\* called at most once; once the watchdog has found the data stale its task
\* is over and the callback, when there is one, has been called exactly once,
\* however long ago the last touch was.
C3_WatchdogOneShot ==
    /\ timeout_calls <= 1
    /\ stale_detected =>
           /\ timeout_monitor_task = "done"
           /\ timeout_calls = (IF timeout_callback THEN 1 ELSE 0)
    /\ ~stale_detected => timeout_calls = 0

\* C3 happens: the callback was called once and the data has been absent for
\* as long as the model counts.
C3_Witness ==
    /\ stale_detected
    /\ timeout_calls = 1
    /\ is_monitoring_timeout
    /\ touch_age = MaxAge

\* C4: whenever the watchdog finds the data stale (and calls the callback),
\* strictly more than its timeout has gone by since the later of the arming
\* and the last update_data_timestamp.
C4_FiresOnlyWhenStale ==
    [][(stale_detected' /\ ~stale_detected) =>
           /\ touch_age > monitor_timeout
           /\ timeout_calls' = timeout_calls + (IF timeout_callback THEN 1 ELSE 0)]_vars

\* C4 happens: data arrived after the arming, stopped, and the callback was
\* called.
C4_Witness ==
    /\ stale_detected
    /\ touched
    /\ timeout_calls = 1
    /\ touch_age > monitor_timeout

\* the watchdog is disarmed: not monitoring and no task that can still run
Disarmed ==
    /\ ~is_monitoring_timeout
    /\ timeout_monitor_task \notin {"created", "sleeping"}

\* C17: stop_timeout_monitoring() leaves the watchdog disarmed whatever its
\* state was; called on a disarmed watchdog it changes nothing; and the
\* watchdog finds the data stale, and calls the timeout callback, only
\* while it is armed.
C17_StopIsIdempotent ==
    [][/\ StopTimeoutMonitoring => Disarmed'
       /\ (Disarmed /\ StopTimeoutMonitoring) => UNCHANGED vars
       /\ (timeout_calls' > timeout_calls \/ (stale_detected' /\ ~stale_detected))
              => is_monitoring_timeout /\ ~Disarmed]_vars

\* C17 happens: the watchdog has fired and was stopped afterwards.
C17_Witness ==
    /\ Disarmed
    /\ timeout_monitor_task = "done"
    /\ stale_detected
    /\ timeout_calls = 1

\* start_timeout_monitoring starts a fresh cycle: a new task and a fresh
\* last-data timestamp
StartsFreshCycle(t) ==
    /\ StartTimeoutMonitoring(t)
    /\ is_monitoring_timeout'
    /\ timeout_monitor_task' = "created"
    /\ last_data_time' = 0
    /\ timeout_calls' = 0 /\ ~stale_detected'

\* C19: once the watchdog has fired, whatever was done since, a call of
\* start_timeout_monitoring starts a fresh cycle.
C19_RearmStartsFreshCycle ==
    (stale_detected /\ timeout_monitor_task = "done")
        => \A t \in Timeouts : ENABLED StartsFreshCycle(t)

\* C5: while the watchdog is armed, with the session connected at the time of
\* arming, the data is never older than the timeout plus one check interval
\* without the watchdog having raised the timeout.
C5_StaleRaisedInTime ==
    (/\ is_monitoring_timeout
     /\ armed_connected
     /\ touch_age > monitor_timeout + CheckInterval)
        => stale_detected

(***************************************************************************)
(* Properties of send_heart_rate                                           *)
(***************************************************************************)
SevenAddresses ==
    <<HeartrateAddress, HeartRateFloatAddress, Heartrate2Address,
      HeartRateFloat01Address, Heartrate3Address, HeartRateIntAddress,
      HeartBeatToggleAddress>>

AddressesFor(battery_level) ==
    IF battery_level = -1
    THEN SevenAddresses
    ELSE Append(SevenAddresses, BluetoothBatteryAddress)

AddressesOf(messages) == [k \in 1..Len(messages) |-> messages[k].address]

\* C6: a send_heart_rate call with a heart rate below HEART_RATE_MIN or above
\* HEART_RATE_MAX returns False, sends nothing and leaves the smoothing
\* window, the toggle bit and last_heart_rate as they were.
C6_OutOfRangeLeavesNoTrace ==
    [][(/\ last_call'.outcome # "None"
        /\ \/ last_call'.heart_rate < HEART_RATE_MIN
           \/ last_call'.heart_rate > HEART_RATE_MAX) =>
           /\ last_call'.outcome \in {"rejected", "not_connected"}
           /\ ~last_call'.returned
           /\ sent' = <<>>
           /\ heart_rate_history' = heart_rate_history
           /\ hb_toggle' = hb_toggle
           /\ osc_last_heart_rate' = osc_last_heart_rate
           /\ accepted_calls' = accepted_calls]_vars

\* C6 happens: a call was rejected by a connected client that had a window,
\* a flipped bit and a last heart rate to lose.
C6_Witness ==
    /\ last_call.outcome = "rejected"
    /\ last_call.heart_rate > HEART_RATE_MAX
    /\ osc_connected
    /\ Len(heart_rate_history) >= 2
    /\ hb_toggle
    /\ osc_last_heart_rate # 0

\* C7: as long as no send_message of an accepted call has raised, the
\* HeartBeatToggle values of the accepted calls are False, True, False, ...
\* from the first one on, whatever calls were rejected in between, and the
\* 7th message of a call carries that value.
C7_ToggleAlternates ==
    all_delivered =>
        /\ \A k \in 1..Len(accepted_calls) :
               accepted_calls[k].toggle = (k % 2 = 0)
        /\ hb_toggle = (Len(accepted_calls) % 2 = 1)
        /\ last_call.outcome = "accepted" =>
               /\ sent[7].address = HeartBeatToggleAddress
               /\ sent[7].num = (IF Len(accepted_calls) % 2 = 0 THEN 1 ELSE 0)

\* C7 happens: a second accepted call has sent True after a first one.
C7_Witness ==
    /\ all_delivered
    /\ Len(accepted_calls) >= 2
    /\ last_call.outcome = "accepted"
    /\ sent[7].num = 1
    /\ ~hb_toggle

\* C8: the messages of an accepted call are Heartrate, HeartRateFloat,
\* Heartrate2, HeartRateFloat01, Heartrate3, HeartRateInt, HeartBeatToggle
\* in this order, 7 of them without a battery level and 8 with one,
\* BluetoothBattery last; the two integers are the heart rate h that was
\* kept in last_heart_rate, the floats are h / 127 - 1 and h / 255, and the
\* battery is battery_level / 100.
C8_FixedOrderSameValue ==
    last_call.outcome = "accepted" =>
        LET h == osc_last_heart_rate
            b == last_call.battery_level
        IN  /\ Len(sent) = (IF b = -1 THEN 7 ELSE 8)
            /\ AddressesOf(sent) = AddressesFor(b)
            /\ h = accepted_calls[Len(accepted_calls)].h
            /\ \A k \in {1, 2} : /\ sent[k].type = "f"
                                 /\ sent[k].num = h - 127
                                 /\ sent[k].den = 127
            /\ \A k \in {3, 4} : /\ sent[k].type = "f"
                                 /\ sent[k].num = h
                                 /\ sent[k].den = 255
            /\ \A k \in {5, 6} : /\ sent[k].type = "i"
                                 /\ sent[k].num = h
                                 /\ sent[k].den = 1
            /\ sent[7].type = "b"
            /\ b # -1 => /\ sent[8].type = "f"
                         /\ sent[8].num = b
                         /\ sent[8].den = 100

\* C8 happens: 8 messages were sent with a smoothed value that is not the
\* raw one.
C8_Witness ==
    /\ last_call.outcome = "accepted"
    /\ Len(sent) = 8
    /\ HEART_RATE_SMOOTHING
    /\ osc_last_heart_rate # last_call.heart_rate
    /\ sent[5].num = osc_last_heart_rate

\* C9: an accepted call attempts each of its 7 or 8 addresses exactly once,
\* in order, whichever of them fail; it returns True and leaves the client,
\* its connected and running flags and its keepalive thread as they were.
C9_BestEffortFanOut ==
    [][accepted_calls' # accepted_calls =>
           /\ AddressesOf(sent') = AddressesFor(last_call'.battery_level)
           /\ last_call'.returned
           /\ last_call'.outcome = "accepted"
           /\ osc_connected' /\ osc_connected
           /\ UNCHANGED oscFields]_vars

\* C9 happens: the send to HeartBeatToggle failed (the bit was not flipped)
\* and BluetoothBattery was attempted after it; the client is connected.
C9_Witness ==
    /\ last_call.outcome = "accepted"
    /\ send_failed
    /\ hb_toggle = accepted_calls[Len(accepted_calls)].toggle
    /\ Len(sent) = 8
    /\ sent[8].address = BluetoothBatteryAddress
    /\ osc_connected

\* C21: every accepted send_heart_rate call flips the toggle bit, whichever
\* of its send_message calls raise.
C21_ToggleFlipsOncePerCall ==
    [][accepted_calls' # accepted_calls => hb_toggle' = ~hb_toggle]_vars

\* the raw values of the accepted calls k-m+1 .. k
RawWindow(k, m) == [j \in 1..m |-> accepted_calls[k - m + j].raw]

Smaller(a, b) == IF a < b THEN a ELSE b

\* h is total / n rounded to the nearest integer, a half to the even one
NearestHalfEven(h, total, n) ==
    LET twice == 2 * (n * h - total)
    IN  /\ -n <= twice /\ twice <= n
        /\ (twice = n \/ twice = -n) => h % 2 = 0

\* C10: with smoothing on and a window of N, the k-th accepted call sends the
\* mean of the last min(k, N) raw accepted values, rounded to the nearest
\* integer with a half going to the even one, and the raw value itself when
\* that is one value; with N = 3 the raw values 60, 80, 100 are sent as
\* 60, 70, 80.
C10_SmoothedIsRoundedMean ==
    HEART_RATE_SMOOTHING =>
        /\ \A k \in 1..Len(accepted_calls) :
               LET m == Smaller(k, SMOOTHING_WINDOW_SIZE)
               IN  /\ NearestHalfEven(accepted_calls[k].h, Sum(RawWindow(k, m)), m)
                   /\ m = 1 => accepted_calls[k].h = accepted_calls[k].raw
        /\ (/\ SMOOTHING_WINDOW_SIZE = 3
            /\ Len(accepted_calls) >= 3
            /\ [k \in 1..3 |-> accepted_calls[k].raw] = <<60, 80, 100>>)
               => [k \in 1..3 |-> accepted_calls[k].h] = <<60, 70, 80>>

\* C10 happens: with a window of 3 the raw values 60, 80, 100 were accepted
\* and sent as 60, 70, 80.
C10_Witness ==
    /\ HEART_RATE_SMOOTHING
    /\ SMOOTHING_WINDOW_SIZE = 3
    /\ Len(accepted_calls) >= 3
    /\ [k \in 1..3 |-> accepted_calls[k].raw] = <<60, 80, 100>>
    /\ [k \in 1..3 |-> accepted_calls[k].h] = <<60, 70, 80>>
    /\ heart_rate_history = <<60, 80, 100>>

\* C32: the heart rate of every accepted call, as sent in Heartrate3 and
\* HeartRateInt and as kept in last_heart_rate, is within HEART_RATE_MIN ..
\* HEART_RATE_MAX, with smoothing on or off and whatever calls were
\* rejected in between.
C32_SentHeartRateInRange ==
    /\ \A k \in 1..Len(accepted_calls) :
           accepted_calls[k].h \in HEART_RATE_MIN..HEART_RATE_MAX
    /\ accepted_calls # <<>> =>
           osc_last_heart_rate \in HEART_RATE_MIN..HEART_RATE_MAX
    /\ last_call.outcome = "accepted" =>
           \A k \in {5, 6} :
               /\ sent[k].type = "i"
               /\ sent[k].num = osc_last_heart_rate
               /\ sent[k].num \in HEART_RATE_MIN..HEART_RATE_MAX

\* C32 happens: with smoothing on, the two ends of the range were accepted
\* one after the other and the mean that was sent is not either of them.
C32_Witness ==
    /\ HEART_RATE_SMOOTHING
    /\ last_call.outcome = "accepted"
    /\ Len(accepted_calls) = 2
    /\ accepted_calls[1].raw = HEART_RATE_MIN
    /\ accepted_calls[2].raw = HEART_RATE_MAX
    /\ sent[5].num = 120
    /\ osc_last_heart_rate = 120

\* the raw values of the last accepted calls, as many as the window takes,
\* when smoothing is on
LastRawValues ==
    IF HEART_RATE_SMOOTHING
    THEN RawWindow(Len(accepted_calls),
                   Smaller(Len(accepted_calls), SMOOTHING_WINDOW_SIZE))
    ELSE <<>>

\* C28: the smoothing window never holds more than SMOOTHING_WINDOW_SIZE
\* values; with smoothing on it is the raw values of the last accepted
\* calls, oldest first, as many as fit, and with smoothing off it stays
\* empty; a call that is rejected or made while not connected leaves it as
\* it is.
C28_WindowIsBoundedFifo ==
    [][/\ Len(heart_rate_history') <= SMOOTHING_WINDOW_SIZE
       /\ heart_rate_history' = LastRawValues'
       /\ heart_rate_history' # heart_rate_history =>
              /\ HEART_RATE_SMOOTHING
              /\ last_call'.outcome = "accepted"
              /\ Len(accepted_calls') = Len(accepted_calls) + 1
       /\ last_call'.outcome \in {"rejected", "not_connected"} =>
              heart_rate_history' = heart_rate_history]_vars

\* C28 happens: a third accepted value pushed the first one out of a window
\* of 2, the value sent was not the raw one, and a rejected call followed.
C28_Witness ==
    /\ HEART_RATE_SMOOTHING
    /\ SMOOTHING_WINDOW_SIZE = 2
    /\ Len(accepted_calls) = 3
    /\ heart_rate_history = <<accepted_calls[2].raw, accepted_calls[3].raw>>
    /\ accepted_calls[1].raw \notin {accepted_calls[2].raw, accepted_calls[3].raw}
    /\ accepted_calls[3].h # accepted_calls[3].raw
    /\ last_call.outcome = "rejected"

(***************************************************************************)
(* Properties of keep_alive()                                              *)
(***************************************************************************)

\* C14: a probe of keep_alive that fails (no client, a transport that
\* reports disconnected, a probe read that raises) leaves is_connected
\* False; no step of keep_alive sets is_connected, touches the client or
\* moves connect(); is_connected becomes True only in connect(), when a
\* strategy of the caller's call connects.
C14_ProbeFailureNoSelfHeal ==
    [][/\ (keep_alive_pc \in {"sleep30", "probe"} /\ keep_alive_pc' = "wait5")
              => ~is_connected'
       /\ keep_alive_pc' # keep_alive_pc
              => /\ is_connected' => is_connected
                 /\ UNCHANGED <<client, client_is_connected, client_timeout>>
                 /\ UNCHANGED connectVars
       /\ (is_connected' /\ ~is_connected)
              => connect_pc = "connecting" /\ connect_pc' = "read_name"]_vars

\* C14 happens: the probe read has raised on a transport that still reports
\* connected, and keep_alive waits with is_connected False.
C14_Witness ==
    /\ keep_alive_pc = "wait5"
    /\ ~is_connected
    /\ client = "BleakClient"
    /\ client_is_connected
    /\ connect_pc \in {"read_name", "read_manufacturer", "read_model", "stabilise"}

\* C24: whenever the session stops being connected, the watchdog is
\* disarmed by the same step, so that it is never armed on a session that
\* is not connected.
C24_DisarmedWhenDisconnected ==
    [][(is_connected /\ ~is_connected') => ~is_monitoring_timeout']_vars

\* C22: when disconnect() returns, no background task of the session is
\* left: the watchdog task and the liveness probe have ended.
C22_DisconnectEndsTasks ==
    [][Disconnect => /\ timeout_monitor_task' \notin {"created", "sleeping"}
                     /\ keep_alive_pc' = "None"]_vars

(***************************************************************************)
(* Properties of the keepalive thread                                      *)
(***************************************************************************)

\* C11: once disconnect() has returned and until connect() is called again,
\* no keepalive thread is in a send_message call, neither one it began
\* after the return nor one that was still going on when the join gave up.
C11_NoBeatAfterStop ==
    \A w \in Workers :
        worker_pc[w] = "sending" => osc_connected \/ osc_disconnect_pc = "join"

\* C30: once cleanup() has called send_connection_status(False), no
\* keepalive thread gives BluetoothHRConnected = True to send_message, so
\* that the last such message is the False of cleanup().
C30_NoBeatAfterLastStatus ==
    [][cleanup_pc # "None" =>
           /\ \A w \in Workers :
                  worker_pc'[w] = "sending" => worker_pc[w] = "sending"
           /\ keepalive_sent' = keepalive_sent]_vars

\* the keepalive threads that have been started and have not ended
AliveWorkers == {w \in Workers : ~Free(w)}

\* C29: at most one keepalive thread is alive, so that no two of them are
\* ever sending BluetoothHRConnected.
C29_OneKeepaliveThread ==
    /\ Cardinality(AliveWorkers) <= 1
    /\ Cardinality({w \in Workers : worker_pc[w] \in {"checked", "sending"}}) <= 1

\* C12: a disconnect() that waits in its join returns, whatever the thread
\* it joins is doing.
C12_DisconnectReturns ==
    osc_disconnect_pc = "join" ~> osc_disconnect_pc = "idle"

\* C12 happens: disconnect() has returned although the thread it joined is
\* still inside send_message.
C12_Witness ==
    /\ osc_disconnect_pc = "idle"
    /\ ~osc_running
    /\ keepalive_thread # 0
    /\ worker_pc[keepalive_thread] = "sending"
    /\ \A v \in Workers : v # keepalive_thread => worker_pc[v] = "none"

\* C13: unless the connection is closed again and again, a keepalive thread
\* calls send_message again and again, with no heart rate needed; the
\* message is BluetoothHRConnected = True; and a send that has ended,
\* returned or raised, is followed by a sleep of KEEPALIVE_INTERVAL seconds
\* and not by the end of the thread.
C13_KeepaliveGoesOn ==
    /\ <>[]osc_running => []<>(\E w \in Workers : worker_pc[w] = "sending")
    /\ [](keepalive_sent \in
             {NoMessage,
              [address |-> "/avatar/parameters/BluetoothHRConnected",
               type |-> "b", num |-> 1, den |-> 1]})
    /\ [][\A w \in Workers :
             worker_pc[w] = "sending" /\ worker_pc'[w] # "sending" =>
                 /\ worker_pc'[w] = "sleeping"
                 /\ worker_sleep'[w] = KEEPALIVE_INTERVAL]_vars

\* C13 happens: with no heart rate ever sent, the only thread has sent a
\* keepalive, slept for the interval and is about to go round.
C13_Witness ==
    /\ osc_running
    /\ accepted_calls = <<>>
    /\ keepalive_sent = KeepaliveMessage
    /\ keepalive_thread # 0
    /\ worker_pc[keepalive_thread] = "sleeping"
    /\ worker_sleep[keepalive_thread] = 0
    /\ \A v \in Workers : v # keepalive_thread => worker_pc[v] = "none"

(***************************************************************************)
(* Properties of the heart-rate and battery values                         *)
(***************************************************************************)

\* the Heart Rate Measurement format: a payload decodes when it holds the
\* flags and the value the flags announce
Decodes(data) == Len(data) >= 2 /\ (data[1] % 2 = 1 => Len(data) >= 3)
\* the value of a payload that decodes
Decoded(data) == IF data[1] % 2 = 1 THEN data[2] + 256 * data[3] ELSE data[2]
\* the notifications whose payload decodes, in the order they arrived
DecodedNotifications == SelectSeq(notifications, Decodes)

\* C15: the heart-rate callback has been invoked exactly once for each
\* notification whose payload decodes, with the decoded value and in the
\* order of arrival, and the last-data timestamp was taken at the last of
\* them.
C15_OneSamplePerDecodedNotification ==
    /\ heart_rate_calls = [i \in 1..Len(DecodedNotifications) |->
                              Decoded(DecodedNotifications[i])]
    /\ (notifications # <<>> /\ Decodes(notifications[Len(notifications)]))
           => last_data_time = 0

\* C16: whatever the payload, _parse_heart_rate_data returns byte 1 when
\* bit 0 of the flags is clear and the length is at least 2, the
\* little-endian 16-bit value of bytes 1..2 when bit 0 is set and the
\* length is at least 3 (75 for 01 4B 00), the same result for any other
\* flags with the same bit 0, and for a payload of length below 2, or of
\* length 2 with bit 0 set, the 0 that stands for no heart-rate value.
C16_ParseDecodesFormat ==
    parse_result # -1 =>
        /\ (Len(parse_data) >= 2 /\ parse_data[1] % 2 = 0)
               => parse_result = parse_data[2]
        /\ (Len(parse_data) >= 3 /\ parse_data[1] % 2 = 1)
               => /\ parse_result % 256 = parse_data[2]
                  /\ parse_result \div 256 = parse_data[3]
        /\ parse_data = <<1, 75, 0>> => parse_result = 75
        /\ Len(parse_data) >= 1 =>
               \A flags \in Bytes :
                   flags % 2 = parse_data[1] % 2
                       => ParseHeartRateData([parse_data EXCEPT ![1] = flags])
                              = parse_result
        /\ (Len(parse_data) < 2 \/ (Len(parse_data) = 2 /\ parse_data[1] % 2 = 1))
               => parse_result = 0

C16_Witness ==
    /\ parse_data = <<17, 75, 1, 0>>
    /\ parse_result = 331

\* C18: every value battery_callback was called with is a percentage,
\* 0 to 100.
C18_BatteryIsPercentage ==
    \A i \in 1..Len(battery_calls) : battery_calls[i] \in 0..100

\* C27: a notification whose payload does not decode leaves the callback
\* uncalled and last_heart_rate, the last-data timestamp and the session as
\* they were; a notification that carries a heart rate is delivered
\* whatever came before it; no notification, whatever its callback does,
\* changes is_connected or the handle.
C27_MalformedDropsOnlyThatSample ==
    [][notifications' # notifications =>
           LET data == notifications'[Len(notifications')]
           IN  /\ UNCHANGED fieldVars
               /\ ~Decodes(data) =>
                      UNCHANGED <<heart_rate_calls, last_heart_rate,
                                  last_data_time, touched, touch_age>>
               /\ (Decodes(data) /\ Decoded(data) > 0) =>
                      /\ heart_rate_calls' =
                             Append(heart_rate_calls, Decoded(data))
                      /\ last_heart_rate' = Decoded(data)
                      /\ last_data_time' = 0]_vars

\* C27 happens: a payload that is too short came between two heart rates
\* and both were delivered.
C27_Witness ==
    /\ notifications = <<<<0, 75>>, <<1, 75>>, <<16, 80>>>>
    /\ heart_rate_calls = <<75, 80>>
    /\ last_heart_rate = 80
    /\ last_data_time = 0

=============================================================================
